---- MODULE Spec2Model ----
(***************************************************************************)
(* Conway's Game of Life on a toroidal grid: the Universe of               *)
(* wasm-game-of-life/src/lib.rs (width, height, cells) and its operations. *)
(*                                                                         *)
(* The u32 arithmetic of the source is kept at its width: a u32 value is a *)
(* pair <<hi, lo>> of 16-bit limbs, and +, -, * report when the true       *)
(* result leaves 0 .. 2^32 - 1.  A build with overflow checks (debug)      *)
(* panics there, a build without them (release) wraps modulo 2^32.         *)
(***************************************************************************)
EXTENDS Integers, Sequences, FiniteSets, TLC

VARIABLES
    width,            \* Universe.width
    height,           \* Universe.height
    cells,            \* Universe.cells, a sequence of Dead / Alive
    overflow_checks,  \* the build: TRUE = overflow checks on (debug profile)
    fault,            \* "none", or the panic that ended the program
    pc,               \* "idle", or "tick" while tick's loop runs
    row,              \* tick's loop variable
    column,           \* tick's loop variable
    next,             \* tick's local buffer
    tracked,          \* TRUE in the single-call harness: record the call
    pre,              \* the Universe before the recorded call
    last,             \* the recorded call and its arguments
    ret               \* the value the recorded call returned (render)

vars == <<width, height, cells, overflow_checks, fault, pc, row, column, next,
          tracked, pre, last, ret>>

(***************************************************************************)
(* Bounds of the model.                                                    *)
(***************************************************************************)
\* the largest ordinary dimension passed to set_width / set_height
MaxDim == 3
\* the largest cell buffer the model allocates
MaxCells == 6
\* the longest coordinate list passed to set_cells
MaxCoords == 2
\* the side of the Universe that new() builds (64 in the source, scaled)
NewDim == 1
\* the largest side of the grids that carry a blinker or a block
LifeDim == 6
\* the largest side, and the largest buffer, of the grids with arbitrary cells
\* that tick is applied to
ShiftDim == 3
ShiftCells == 9

(***************************************************************************)
(* Cell                                                                    *)
(***************************************************************************)
Dead == 0
Alive == 1

\* Cell::toggle
toggle(c) == IF c = Dead THEN Alive ELSE Dead

(***************************************************************************)
(* u32 arithmetic on limb pairs.                                           *)
(***************************************************************************)
Limb == 2 ^ 16

\* the u32 value of a natural number below 2^31
U32(n) == <<n \div Limb, n % Limb>>

\* a u32 value below 2^31, which is a natural number of the model
Small(x) == x[1] < Limb \div 2

Nat32(x) == x[1] * Limb + x[2]

\* a u32 result: the wrapped value, and whether the true value left the range
Wrapped(hi, lo, ovf) == [v |-> <<hi % Limb, lo % Limb>>, ovf |-> ovf]

AddCarry(x, y, lo) == Wrapped(x[1] + y[1] + (lo \div Limb), lo,
                              x[1] + y[1] + (lo \div Limb) >= Limb)

\* x + y
Add32(x, y) == AddCarry(x, y, x[2] + y[2])

SubBorrow(hi, lo) == Wrapped(hi + Limb, lo + Limb, hi < 0)

\* x - y
Sub32(x, y) ==
    SubBorrow(x[1] - y[1] - (IF x[2] < y[2] THEN 1 ELSE 0), x[2] - y[2])

LimbSum(top, low) == <<(top \div 256) + (low \div Limb), low % Limb>>

\* the product of two 16-bit limbs as a limb pair
MulLimb(a, b) == LimbSum((a \div 256) * b, (((a \div 256) * b) % 256) * 256 + (a % 256) * b)

MulSum(x, y, ll, lh, hl) ==
    Wrapped(ll[1] + lh[2] + hl[2], ll[2],
            (x[1] # 0 /\ y[1] # 0) \/ lh[1] # 0 \/ hl[1] # 0
                \/ ll[1] + lh[2] + hl[2] >= Limb)

\* x * y
Mul32(x, y) ==
    MulSum(x, y, MulLimb(x[2], y[2]), MulLimb(x[2], y[1]), MulLimb(x[1], y[2]))

\* the first panic of a sequence of steps, "none" when there is none
RECURSIVE FirstFault(_)
FirstFault(fs) ==
    IF fs = <<>> THEN "none"
    ELSE IF Head(fs) # "none" THEN Head(fs)
    ELSE FirstFault(Tail(fs))

\* the panic of an arithmetic step in a build with overflow checks
Checked(ovf, checks) == IF checks /\ ovf THEN "overflow" ELSE "none"

(***************************************************************************)
(* The Universe as a value, and the result of an operation on it.          *)
(***************************************************************************)
Universe(w, h, cs) == [width |-> w, height |-> h, cells |-> cs]

Result(w, h, cs, f) == [width |-> w, height |-> h, cells |-> cs, fault |-> f]

\* width * height as the source computes it, for the buffer's length
cell_count(w, h) == Mul32(U32(w), U32(h))

\* (0..n).map(|_| Cell::Dead).collect() after the dimension is stored
dead_cells_unless_same(w, h, old, n, checks, same) ==
    IF checks /\ n.ovf THEN Result(w, h, old, "overflow")
    ELSE IF same THEN Result(w, h, old, "none")
    ELSE Result(w, h, [i \in 1..Nat32(n.v) |-> Dead], "none")

dead_cells(w, h, old, n, checks) ==
    IF checks /\ n.ovf THEN Result(w, h, old, "overflow")
    ELSE Result(w, h, [i \in 1..Nat32(n.v) |-> Dead], "none")

set_width_keeps(u, w, checks) ==
    dead_cells_unless_same(w, u.height, u.cells, cell_count(w, u.height), checks,
                           w = u.width)

\* Universe::set_width
set_width(u, w, checks) ==
    dead_cells(w, u.height, u.cells, cell_count(w, u.height), checks)

\* Universe::set_height
set_height(u, h, checks) ==
    dead_cells(u.width, h, u.cells, cell_count(u.width, h), checks)

random_cells(u, draw, n, checks) ==
    IF checks /\ n.ovf THEN Result(u.width, u.height, u.cells, "overflow")
    ELSE Result(u.width, u.height,
                [i \in 1..Nat32(n.v) |-> IF draw[i] THEN Alive ELSE Dead], "none")

random_cells_over(u, draw, n, checks) ==
    IF checks /\ n.ovf THEN Result(u.width, u.height, u.cells, "overflow")
    ELSE Result(u.width, u.height,
                [i \in 1..Nat32(n.v) |->
                    IF draw[i] \/ (i <= Len(u.cells) /\ u.cells[i] = Alive)
                    THEN Alive ELSE Dead], "none")

start_over(u, draw, checks) ==
    random_cells_over(u, draw, cell_count(u.width, u.height), checks)

\* Universe::start, with the outcomes of random() given as draw
start(u, draw, checks) == random_cells(u, draw, cell_count(u.width, u.height), checks)

reset_keeps_first(u) ==
    Result(u.width, u.height,
           [i \in 1..Len(u.cells) |-> IF i = 1 THEN u.cells[i] ELSE Dead], "none")

\* Universe::reset
reset(u) ==
    Result(u.width, u.height, [i \in 1..Len(u.cells) |-> Dead], "none")

(***************************************************************************)
(* Indexing                                                                *)
(***************************************************************************)
IndexSum(m, a, checks) == [v |-> a.v, fault |-> Checked(m.ovf \/ a.ovf, checks)]

IndexOf(m, c, checks) == IndexSum(m, Add32(m.v, c), checks)

get_index_column_major(u, r, c, checks) == IndexOf(Mul32(c, U32(u.height)), r, checks)

\* Universe::get_index: row * width + column in u32 (r, c are u32 values)
get_index(u, r, c, checks) == IndexOf(Mul32(r, U32(u.width)), c, checks)

\* whether self.cells[i] is inside the buffer (a Vec panics when it is not)
InBounds(i, cs) == Small(i) /\ Nat32(i) < Len(cs)

\* self.cells[i]: the panic, or the cell read
Read(cs, i) ==
    IF i.fault # "none" THEN [fault |-> i.fault, val |-> Dead]
    ELSE IF ~InBounds(i.v, cs) THEN [fault |-> "bounds", val |-> Dead]
    ELSE [fault |-> "none", val |-> cs[Nat32(i.v) + 1]]

\* self.cells[self.get_index(r, c)]
cell_at(u, r, c, checks) == Read(u.cells, get_index(u, r, c, checks))

(***************************************************************************)
(* Neighbour counting                                                      *)
(***************************************************************************)
wrap_dec_clamped(x, n) == IF x = 0 THEN Wrapped(0, 0, FALSE) ELSE Sub32(U32(x), U32(1))

\* if x == 0 { n - 1 } else { x - 1 }: north of a row, west of a column
wrap_dec(x, n) == IF x = 0 THEN Sub32(U32(n), U32(1)) ELSE Sub32(U32(x), U32(1))

IncOrZero(x, nm1, inc) ==
    IF x = nm1.v THEN [v |-> U32(0), ovf |-> nm1.ovf]
    ELSE [v |-> inc.v, ovf |-> nm1.ovf \/ inc.ovf]

IncOrStay(x, nm1, inc) ==
    IF x = nm1.v THEN [v |-> x, ovf |-> nm1.ovf]
    ELSE [v |-> inc.v, ovf |-> nm1.ovf \/ inc.ovf]

wrap_inc_clamped(x, n) ==
    IncOrStay(U32(x), Sub32(U32(n), U32(1)), Add32(U32(x), U32(1)))

\* if x == n - 1 { 0 } else { x + 1 }: south of a row, east of a column
wrap_inc(x, n) ==
    IncOrZero(U32(x), Sub32(U32(n), U32(1)), Add32(U32(x), U32(1)))

\* count += self.cells[..] as u8, over the eight reads
Tally(arith, reads) ==
    [fault |-> FirstFault(<<arith>> \o [k \in 1..8 |-> reads[k].fault]),
     count |-> reads[1].val + reads[2].val + reads[3].val + reads[4].val
               + reads[5].val + reads[6].val + reads[7].val + reads[8].val]

NoRead == [fault |-> "none", val |-> Dead]

CountAroundDistinct(u, r, c, north, south, west, east, checks) ==
    Tally(Checked(north.ovf \/ south.ovf \/ west.ovf \/ east.ovf, checks),
          << IF north.v = south.v THEN NoRead ELSE cell_at(u, north.v, c, checks),
             IF north.v = south.v \/ east.v = west.v THEN NoRead
             ELSE cell_at(u, north.v, east.v, checks),
             IF east.v = west.v THEN NoRead ELSE cell_at(u, r, east.v, checks),
             IF east.v = west.v THEN NoRead ELSE cell_at(u, south.v, east.v, checks),
             cell_at(u, south.v, c, checks), cell_at(u, south.v, west.v, checks),
             cell_at(u, r, west.v, checks),
             IF north.v = south.v THEN NoRead ELSE cell_at(u, north.v, west.v, checks) >>)

\* the eight reads, in the order n, ne, e, se, s, ws, w, nw
CountAround(u, r, c, north, south, west, east, checks) ==
    Tally(Checked(north.ovf \/ south.ovf \/ west.ovf \/ east.ovf, checks),
          << cell_at(u, north.v, c, checks), cell_at(u, north.v, east.v, checks),
             cell_at(u, r, east.v, checks), cell_at(u, south.v, east.v, checks),
             cell_at(u, south.v, c, checks), cell_at(u, south.v, west.v, checks),
             cell_at(u, r, west.v, checks), cell_at(u, north.v, west.v, checks) >>)

\* Universe::live_neighbor_count(row, column): the panic, or the count
live_neighbor_count(u, rw, cl, checks) ==
    CountAround(u, U32(rw), U32(cl),
                wrap_dec(rw, u.height), wrap_inc(rw, u.height),
                wrap_dec(cl, u.width), wrap_inc(cl, u.width), checks)

(***************************************************************************)
(* tick                                                                    *)
(***************************************************************************)
next_cell_no_birth(cell, x) ==
    IF cell = Alive /\ x < 2 THEN Dead
    ELSE IF cell = Alive /\ (x = 2 \/ x = 3) THEN Alive
    ELSE IF cell = Alive /\ x > 3 THEN Dead
    ELSE cell

next_cell_survives_two(cell, x) ==
    IF cell = Alive /\ x < 2 THEN Dead
    ELSE IF cell = Alive /\ x = 2 THEN Alive
    ELSE IF cell = Alive /\ x > 2 THEN Dead
    ELSE IF cell = Dead /\ x = 3 THEN Alive
    ELSE cell

next_cell_from_nothing(cell, x) ==
    IF cell = Alive /\ x < 2 THEN Dead
    ELSE IF cell = Alive /\ (x = 2 \/ x = 3) THEN Alive
    ELSE IF cell = Alive /\ x > 3 THEN Dead
    ELSE IF cell = Dead /\ (x = 3 \/ x = 0) THEN Alive
    ELSE cell

next_cell_crowded(cell, x) ==
    IF cell = Alive /\ x < 2 THEN Dead
    ELSE IF cell = Alive /\ (x = 2 \/ x = 3) THEN Alive
    ELSE IF cell = Alive /\ x > 4 THEN Dead
    ELSE IF cell = Dead /\ x = 3 THEN Alive
    ELSE cell

\* the match on (cell, live_neighbors) in Universe::tick
next_cell(cell, x) ==
    IF cell = Alive /\ x < 2 THEN Dead
    ELSE IF cell = Alive /\ (x = 2 \/ x = 3) THEN Alive
    ELSE IF cell = Alive /\ x > 3 THEN Dead
    ELSE IF cell = Dead /\ x = 3 THEN Alive
    ELSE cell

\* next[index] = next_cell, unless reading the cell or counting panicked
WriteNext(nxt, index, cell, live) ==
    IF cell.fault # "none" THEN [next |-> nxt, fault |-> cell.fault]
    ELSE IF live.fault # "none" THEN [next |-> nxt, fault |-> live.fault]
    ELSE [next  |-> [nxt EXCEPT ![Nat32(index.v) + 1] = next_cell(cell.val, live.count)],
          fault |-> "none"]

tick_cell_in_place(u, nxt, rw, cl, checks) ==
    WriteNext(nxt, get_index(u, U32(rw), U32(cl), checks),
              cell_at(Universe(u.width, u.height, nxt), U32(rw), U32(cl), checks),
              live_neighbor_count(Universe(u.width, u.height, nxt), rw, cl, checks))

\* one pass of the body of tick's loops, at (row, column), writing into next
tick_cell(u, nxt, rw, cl, checks) ==
    WriteNext(nxt, get_index(u, U32(rw), U32(cl), checks),
              cell_at(u, U32(rw), U32(cl), checks),
              live_neighbor_count(u, rw, cl, checks))

RECURSIVE tick_from(_, _, _, _, _)
\* after one pass of the loop body: a panic ends the call before self.cells
\* is assigned, otherwise the loop variables advance
TickOn(u, pass, rw, cl, checks) ==
    IF pass.fault # "none" THEN Result(u.width, u.height, u.cells, pass.fault)
    ELSE IF cl + 1 < u.width THEN tick_from(u, pass.next, rw, cl + 1, checks)
    ELSE tick_from(u, pass.next, rw + 1, 0, checks)

\* tick's loops from (rw, cl) on, with next as it is so far
tick_from(u, nxt, rw, cl, checks) ==
    IF u.width = 0 \/ rw >= u.height THEN Result(u.width, u.height, nxt, "none")
    ELSE TickOn(u, tick_cell(u, nxt, rw, cl, checks), rw, cl, checks)

\* Universe::tick as one call
tick(u, checks) == tick_from(u, u.cells, 0, 0, checks)

(***************************************************************************)
(* Direct edits                                                            *)
(***************************************************************************)
\* self.cells[index].toggle()
ToggleAt(u, i) ==
    IF i.fault # "none" THEN Result(u.width, u.height, u.cells, i.fault)
    ELSE IF ~InBounds(i.v, u.cells) THEN Result(u.width, u.height, u.cells, "bounds")
    ELSE Result(u.width, u.height, [u.cells EXCEPT ![Nat32(i.v) + 1] = toggle(@)], "none")

\* Universe::toggle_cell
toggle_cell(u, rw, cl, checks) == ToggleAt(u, get_index(u, U32(rw), U32(cl), checks))

AliveAtToggles(u, i) ==
    IF i.fault # "none" THEN Result(u.width, u.height, u.cells, i.fault)
    ELSE IF ~InBounds(i.v, u.cells) THEN Result(u.width, u.height, u.cells, "bounds")
    ELSE Result(u.width, u.height, [u.cells EXCEPT ![Nat32(i.v) + 1] = toggle(@)], "none")

\* self.cells[index] = Cell::Alive
AliveAt(u, i) ==
    IF i.fault # "none" THEN Result(u.width, u.height, u.cells, i.fault)
    ELSE IF ~InBounds(i.v, u.cells) THEN Result(u.width, u.height, u.cells, "bounds")
    ELSE Result(u.width, u.height, [u.cells EXCEPT ![Nat32(i.v) + 1] = Alive], "none")

RECURSIVE set_cells(_, _, _)
\* the rest of set_cells' loop after one pass: the first panic ends it
SetRest(done, rest, checks) ==
    IF done.fault # "none" THEN done
    ELSE set_cells(Universe(done.width, done.height, done.cells), rest, checks)

\* Universe::set_cells
set_cells(u, coords, checks) ==
    IF coords = <<>> THEN Result(u.width, u.height, u.cells, "none")
    ELSE SetRest(AliveAt(u, get_index(u, U32(Head(coords)[1]), U32(Head(coords)[2]), checks)),
                 Tail(coords), checks)

(***************************************************************************)
(* Rendering                                                               *)
(***************************************************************************)
\* the glyphs U+25FB (Dead) and U+25FC (Alive), and the line break
DeadGlyph == "o"
AliveGlyph == "#"
LineBreak == "\n"

RECURSIVE chunks(_, _)
\* slice::chunks(n) for n > 0: the pieces of length n, the last one shorter
chunks(s, n) ==
    IF s = <<>> THEN <<>>
    ELSE IF Len(s) <= n THEN <<s>>
    ELSE <<SubSeq(s, 1, n)>> \o chunks(SubSeq(s, n + 1, Len(s)), n)

\* the inner loop of fmt: one glyph per cell, then the line break
fmt_line(line) ==
    [i \in 1..Len(line) |-> IF line[i] = Dead THEN DeadGlyph ELSE AliveGlyph]
        \o <<LineBreak>>

RECURSIVE fmt_lines(_)
fmt_lines(ls) == IF ls = <<>> THEN <<>> ELSE fmt_line(Head(ls)) \o fmt_lines(Tail(ls))

\* impl fmt::Display for Universe, behind Universe::render: chunks(0) panics
fmt(u) ==
    IF u.width = 0
    THEN [fault |-> "chunk", out |-> <<>>]
    ELSE [fault |-> "none", out |-> fmt_lines(chunks(u.cells, u.width))]

(***************************************************************************)
(* The state machine: one action per call of the public interface, and     *)
(* tick's loop one cell at a time.                                         *)
(***************************************************************************)
\* dimensions whose product with another leaves the u32 range
BigDims == {65536, 1431655766}

\* the dimensions passed to set_width and set_height
Dims == (0..MaxDim) \cup BigDims

\* the rows and columns passed to toggle_cell
Coords == (0..MaxDim) \cup {1431655766}

Min(a, b) == IF a < b THEN a ELSE b

\* the coordinate lists passed to set_cells: in range, or just out of range
CoordLists ==
    LET rc == (0..Min(height, MaxDim)) \X (0..Min(width, MaxDim))
    IN  UNION {[1..n -> rc] : n \in 0..MaxCoords}

\* the model allocates a buffer of width * height cells only up to MaxCells
FitsCount(n) == (overflow_checks /\ n.ovf) \/ (Small(n.v) /\ Nat32(n.v) <= MaxCells)

Fits(w, h) == FitsCount(cell_count(w, h))

Cur == Universe(width, height, cells)

NoCall == [op |-> "none", a |-> 0, b |-> 0, coords |-> <<>>]

Call(op, a, b, coords) == [op |-> op, a |-> a, b |-> b, coords |-> coords]

\* a panic ends the program; the harness makes one call
Callable == pc = "idle" /\ fault = "none" /\ (tracked => last = NoCall)

Apply(r) ==
    /\ width' = r.width
    /\ height' = r.height
    /\ cells' = r.cells
    /\ fault' = r.fault

Track(c) ==
    IF tracked THEN last' = c /\ pre' = Cur ELSE UNCHANGED <<last, pre>>

\* Universe::new: 64 x 64 in the source, NewDim x NewDim here, cells from start()
new(draw, checks) == start(Universe(NewDim, NewDim, <<>>), draw, checks)

Init ==
    /\ overflow_checks \in BOOLEAN
    /\ \E draw \in [1..(NewDim * NewDim) -> BOOLEAN] :
          LET u == new(draw, overflow_checks)
          IN  width = u.width /\ height = u.height /\ cells = u.cells /\ fault = u.fault
    /\ pc = "idle" /\ row = 0 /\ column = 0 /\ next = <<>>
    /\ tracked = FALSE /\ pre = Universe(0, 0, <<>>) /\ last = NoCall /\ ret = <<>>

\* the single-call harness: any Universe the calls can build, then one call
InitCall ==
    /\ overflow_checks \in BOOLEAN
    /\ \E w \in Dims, h \in Dims :
          LET n == cell_count(w, h)
          IN  /\ ~(overflow_checks /\ n.ovf)
              /\ Small(n.v) /\ Nat32(n.v) <= MaxCells
              /\ width = w /\ height = h
              /\ cells \in [1..Nat32(n.v) -> {Dead, Alive}]
    /\ fault = "none"
    /\ pc = "idle" /\ row = 0 /\ column = 0 /\ next = <<>>
    /\ tracked = TRUE /\ pre = Universe(0, 0, <<>>) /\ last = NoCall /\ ret = <<>>

SetWidth ==
    /\ Callable
    /\ \E new_width \in Dims :
          /\ Fits(new_width, height)
          /\ Apply(set_width(Cur, new_width, overflow_checks))
          /\ Track(Call("set_width", new_width, 0, <<>>))
    /\ UNCHANGED <<overflow_checks, pc, row, column, next, tracked, ret>>

SetHeight ==
    /\ Callable
    /\ \E new_height \in Dims :
          /\ Fits(width, new_height)
          /\ Apply(set_height(Cur, new_height, overflow_checks))
          /\ Track(Call("set_height", new_height, 0, <<>>))
    /\ UNCHANGED <<overflow_checks, pc, row, column, next, tracked, ret>>

\* the number of random() draws start makes
Draws(n) == IF overflow_checks /\ n.ovf THEN 0 ELSE Nat32(n.v)

Start ==
    /\ Callable
    /\ \E draw \in [1..Draws(cell_count(width, height)) -> BOOLEAN] :
          Apply(start(Cur, draw, overflow_checks))
    /\ Track(Call("start", 0, 0, <<>>))
    /\ UNCHANGED <<overflow_checks, pc, row, column, next, tracked, ret>>

Reset ==
    /\ Callable
    /\ Apply(reset(Cur))
    /\ Track(Call("reset", 0, 0, <<>>))
    /\ UNCHANGED <<overflow_checks, pc, row, column, next, tracked, ret>>

ToggleCell ==
    /\ Callable
    /\ \E at_row \in Coords, at_column \in Coords :
          /\ Apply(toggle_cell(Cur, at_row, at_column, overflow_checks))
          /\ Track(Call("toggle_cell", at_row, at_column, <<>>))
    /\ UNCHANGED <<overflow_checks, pc, row, column, next, tracked, ret>>

SetCells ==
    /\ Callable
    /\ \E alive \in CoordLists :
          /\ Apply(set_cells(Cur, alive, overflow_checks))
          /\ Track(Call("set_cells", 0, 0, alive))
    /\ UNCHANGED <<overflow_checks, pc, row, column, next, tracked, ret>>

Render ==
    /\ Callable
    /\ LET text == fmt(Cur)
       IN  /\ fault' = text.fault
           /\ ret' = IF tracked THEN text.out ELSE ret
    /\ Track(Call("render", 0, 0, <<>>))
    /\ UNCHANGED <<width, height, cells, overflow_checks, pc, row, column, next, tracked>>

\* let mut next = self.cells.clone(), and the loops start
TickBegin ==
    /\ Callable
    /\ pc' = "tick"
    /\ next' = cells
    /\ row' = 0
    /\ column' = 0
    /\ Track(Call("tick", 0, 0, <<>>))
    /\ UNCHANGED <<width, height, cells, overflow_checks, fault, tracked, ret>>

TickCellDoWhile ==
    /\ pc = "tick" /\ fault = "none"
    /\ (row < height /\ column < width) \/ (row = 0 /\ column = 0)
    /\ LET pass == tick_cell(Cur, next, row, column, overflow_checks)
       IN  /\ next' = pass.next
           /\ fault' = pass.fault
           /\ IF pass.fault # "none" THEN UNCHANGED <<row, column>>
              ELSE IF column + 1 < width THEN row' = row /\ column' = column + 1
              ELSE row' = row + 1 /\ column' = 0
    /\ UNCHANGED <<width, height, cells, overflow_checks, pc, tracked, pre, last, ret>>

\* one pass of the loop body, then the loop variables advance (a row of a
\* Universe of width 0 has no pass)
TickCell ==
    /\ pc = "tick" /\ fault = "none"
    /\ row < height /\ column < width
    /\ LET pass == tick_cell(Cur, next, row, column, overflow_checks)
       IN  /\ next' = pass.next
           /\ fault' = pass.fault
           /\ IF pass.fault # "none" THEN UNCHANGED <<row, column>>
              ELSE IF column + 1 < width THEN row' = row /\ column' = column + 1
              ELSE row' = row + 1 /\ column' = 0
    /\ UNCHANGED <<width, height, cells, overflow_checks, pc, tracked, pre, last, ret>>

\* self.cells = next
TickEnd ==
    /\ pc = "tick" /\ fault = "none"
    /\ row >= height \/ width = 0
    /\ cells' = next
    /\ pc' = "idle"
    /\ next' = <<>> /\ row' = 0 /\ column' = 0
    /\ UNCHANGED <<width, height, overflow_checks, fault, tracked, pre, last, ret>>

Next ==
    \/ SetWidth
    \/ SetHeight
    \/ Start
    \/ Reset
    \/ ToggleCell
    \/ SetCells
    \/ Render
    \/ TickBegin
    \/ TickCell
    \/ TickEnd

\* the program from Universe::new()
Spec == Init /\ [][Next]_vars

\* one call on any Universe, with the call and the Universe before it recorded
SpecCall == InitCall /\ [][Next]_vars

\* the row and the column of the cell at position i of a buffer of width w
RowOf(i, w) == (i - 1) \div w

ColumnOf(i, w) == (i - 1) % w

\* set_cells of a horizontal line of 3 cells centred at (r, c) of the torus,
\* on an all-Dead grid
HLine(w, h, r, c) ==
    [i \in 1..(w * h) |->
        IF RowOf(i, w) = r /\ ColumnOf(i, w) \in {(c + w - 1) % w, c, (c + 1) % w}
        THEN Alive ELSE Dead]

\* the vertical line of 3 cells centred at (r, c)
VLine(w, h, r, c) ==
    [i \in 1..(w * h) |->
        IF ColumnOf(i, w) = c /\ RowOf(i, w) \in {(r + h - 1) % h, r, (r + 1) % h}
        THEN Alive ELSE Dead]

\* the 2 x 2 block whose top-left cell is (r, c) of the torus
Block(w, h, r, c) ==
    [i \in 1..(w * h) |->
        IF RowOf(i, w) \in {r, (r + 1) % h} /\ ColumnOf(i, w) \in {c, (c + 1) % w}
        THEN Alive ELSE Dead]

\* the grids tick is applied to: a line or a block anywhere on a grid large
\* enough for it, or any cells on a small grid
LifeGrids ==
    UNION {
        {Universe(wh[1], wh[2], HLine(wh[1], wh[2], r, c)) :
            r \in 0..(wh[2] - 1), c \in 0..(wh[1] - 1)}
        : wh \in (5..LifeDim) \X (5..LifeDim) }
    \cup
    UNION {
        {Universe(wh[1], wh[2], Block(wh[1], wh[2], r, c)) :
            r \in 0..(wh[2] - 1), c \in 0..(wh[1] - 1)}
        : wh \in (4..LifeDim) \X (4..LifeDim) }
    \cup
    UNION {
        {Universe(wh[1], wh[2], cs) : cs \in [1..(wh[1] * wh[2]) -> {Dead, Alive}]}
        : wh \in {d \in (1..ShiftDim) \X (1..ShiftDim) : d[1] * d[2] <= ShiftCells} }

InitLife ==
    /\ overflow_checks \in BOOLEAN
    /\ \E u \in LifeGrids : width = u.width /\ height = u.height /\ cells = u.cells
    /\ fault = "none"
    /\ pc = "idle" /\ row = 0 /\ column = 0 /\ next = <<>>
    /\ tracked = FALSE /\ pre = Universe(0, 0, <<>>) /\ last = NoCall /\ ret = <<>>

NextLife ==
    \/ TickBegin
    \/ TickCell
    \/ TickEnd

\* tick after tick on a grid set up with set_width, set_height and set_cells
SpecLife == InitLife /\ [][NextLife]_vars

(***************************************************************************)
(* What the specification says, stated without the code's operators.       *)
(***************************************************************************)
\* cells.length == width * height, the product taken in the integers
IsProduct(u) ==
    LET n == cell_count(u.width, u.height)
    IN  ~n.ovf /\ Small(n.v) /\ Nat32(n.v) = Len(u.cells)

\* cells.length is the product modulo 2^32
IsWrappedProduct(u) ==
    LET n == cell_count(u.width, u.height)
    IN  Small(n.v) /\ Nat32(n.v) = Len(u.cells)

\* a row-major grid with at least one cell
IsGrid(u) == IsProduct(u) /\ u.width >= 1 /\ u.height >= 1

\* the cell at (r mod height, c mod width), for r >= -1 and c >= -1
Torus(u, r, c) ==
    u.cells[((r + u.height) % u.height) * u.width + ((c + u.width) % u.width) + 1]

\* the live cells among the 8 offsets around (r, c) on the torus
TorusCount(u, r, c) ==
    Torus(u, r - 1, c - 1) + Torus(u, r - 1, c) + Torus(u, r - 1, c + 1)
    + Torus(u, r, c - 1) + Torus(u, r, c + 1)
    + Torus(u, r + 1, c - 1) + Torus(u, r + 1, c) + Torus(u, r + 1, c + 1)

\* the Life rule table
LifeRule(cell, n) ==
    IF cell = Alive
    THEN (IF n < 2 THEN Dead ELSE IF n = 2 \/ n = 3 THEN Alive ELSE Dead)
    ELSE (IF n = 3 THEN Alive ELSE Dead)

\* the next generation of a grid
NextGeneration(u) ==
    [i \in 1..Len(u.cells) |->
        LifeRule(u.cells[i],
                 TorusCount(u, (i - 1) \div u.width, (i - 1) % u.width))]

AllDead(cs) == \A i \in 1..Len(cs) : cs[i] = Dead

SomeAlive(cs) == \E i \in 1..Len(cs) : cs[i] = Alive

\* the passes of tick's loop that are done: linear indices 0 .. Passed - 1
Passed == IF width = 0 THEN 0 ELSE row * width + column

\* the call recorded by the harness has returned
Returned(op) == tracked /\ last.op = op /\ pc = "idle" /\ fault = "none"

(***************************************************************************)
(* C1. After every call that returns, the length of the cell buffer equals *)
(* width * height.                                                         *)
(***************************************************************************)
C1_DimensionInvariant == (fault = "none") => IsProduct(Cur)

\* what the code keeps instead: the length is the product modulo 2^32
WrappedDimensionInvariant == (fault = "none") => IsWrappedProduct(Cur)

(***************************************************************************)
(* C2. tick gives every cell the next state of the Life rule table, for    *)
(* both cell states and every live-neighbour count 0..8: the match of the  *)
(* code agrees with the table, and every cell that tick's loop has passed  *)
(* holds in next the table's entry for its state and its count.            *)
(***************************************************************************)
C2_RuleTable ==
    /\ \A cell \in {Dead, Alive}, n \in 0..8 : next_cell(cell, n) = LifeRule(cell, n)
    /\ (pc = "tick" /\ fault = "none") =>
          \A i \in 1..Passed :
             next[i] = LifeRule(cells[i],
                                live_neighbor_count(Cur, (i - 1) \div width,
                                                    (i - 1) % width,
                                                    overflow_checks).count)

\* tick has passed a Dead cell with 3 live neighbours, now Alive in next, and
\* an Alive cell with 2 or 3, still Alive in next
C2_Witness ==
    /\ pc = "tick" /\ fault = "none"
    /\ \E i \in 1..Passed, j \in 1..Passed :
          /\ cells[i] = Dead /\ next[i] = Alive
          /\ cells[j] = Alive /\ next[j] = Alive

(***************************************************************************)
(* C3. tick is a synchronous update: while its loop runs the current       *)
(* buffer stays the pre-tick grid, and the buffer changes once, at the     *)
(* end, to the complete next generation of the pre-tick grid.              *)
(***************************************************************************)
C3_SynchronousTick ==
    [][ /\ (pc = "idle" /\ pc' = "tick") => cells' = cells
        /\ (pc = "tick" /\ pc' = "tick") => cells' = cells
        /\ (pc = "tick" /\ pc' = "idle") => cells' = NextGeneration(Cur) ]_vars

\* the loop is under way: next is partly new, the current buffer is still old
C3_Witness ==
    /\ pc = "tick" /\ fault = "none"
    /\ Passed > 0 /\ row < height
    /\ next # cells
    /\ NextGeneration(Cur) # next

(***************************************************************************)
(* C4. On every grid with width >= 1 and height >= 1, and for every        *)
(* in-range (row, column), live_neighbor_count returns the number of live  *)
(* cells among the 8 offsets taken modulo (height, width); it lies in 0..8.*)
(***************************************************************************)
C4_ToroidalCount ==
    (fault = "none" /\ IsGrid(Cur)) =>
        \A r \in 0..(height - 1), c \in 0..(width - 1) :
           /\ live_neighbor_count(Cur, r, c, overflow_checks)
                 = [fault |-> "none", count |-> TorusCount(Cur, r, c)]
           /\ TorusCount(Cur, r, c) \in 0..8

\* tick is counting on a grid whose only live cell is its last one, which
\* cell (0, 0) meets through the wrapped corner
C4_Witness ==
    /\ pc = "tick" /\ fault = "none" /\ IsGrid(Cur)
    /\ width = 3 /\ height = 2
    /\ cells = <<Dead, Dead, Dead, Dead, Dead, Alive>>
    /\ live_neighbor_count(Cur, 0, 0, overflow_checks).count = 2

(***************************************************************************)
(* C5. Out-of-range coordinates are never treated as success: a call of    *)
(* toggle_cell(row, column), or of set_cells with a pair (row, column),    *)
(* where row >= height or column >= width either fails or leaves every     *)
(* cell unchanged.                                                         *)
(***************************************************************************)
OutOfRange(u, r, c) == r >= u.height \/ c >= u.width

C5_OutOfRangeRejected ==
    /\ (tracked /\ last.op = "toggle_cell" /\ IsProduct(pre)
          /\ OutOfRange(pre, last.a, last.b))
       => (fault # "none" \/ cells = pre.cells)
    /\ (tracked /\ last.op = "set_cells" /\ IsProduct(pre)
          /\ \E k \in 1..Len(last.coords) :
                OutOfRange(pre, last.coords[k][1], last.coords[k][2]))
       => (fault # "none" \/ cells = pre.cells)

(***************************************************************************)
(* C6. set_width(w) that returns leaves width = w, height unchanged and    *)
(* every cell Dead, and set_height(h) leaves height = h, width unchanged   *)
(* and every cell Dead, also when the dimension does not change.           *)
(***************************************************************************)
C6_ReshapeDiscards ==
    /\ Returned("set_width") =>
          width = last.a /\ height = pre.height /\ AllDead(cells)
             /\ IsWrappedProduct(Cur)
    /\ Returned("set_height") =>
          height = last.a /\ width = pre.width /\ AllDead(cells)
             /\ IsWrappedProduct(Cur)

\* set_width with the width the grid already had, on a grid with a live cell
C6_Witness ==
    /\ Returned("set_width")
    /\ last.a = pre.width /\ SomeAlive(pre.cells)
    /\ Len(cells) = Len(pre.cells) /\ AllDead(cells)

(***************************************************************************)
(* C7. render() returns the grid row by row, `height` rows of `width`      *)
(* glyphs, each row ended by a line break, also when width or height is 0, *)
(* and leaves width, height and cells unchanged.                           *)
(***************************************************************************)
RowGlyphs(u, r) ==
    [c \in 1..u.width |->
        IF u.cells[r * u.width + c] = Alive THEN AliveGlyph ELSE DeadGlyph]
    \o <<LineBreak>>

RECURSIVE RowsFrom(_, _)
RowsFrom(u, r) ==
    IF r >= u.height THEN <<>> ELSE RowGlyphs(u, r) \o RowsFrom(u, r + 1)

C7_RenderRows ==
    (tracked /\ last.op = "render" /\ IsProduct(pre)) =>
        /\ fault = "none"
        /\ Cur = pre
        /\ ret = RowsFrom(pre, 0)

(***************************************************************************)
(* C8. set_cells(coords) with in-range pairs makes every named cell Alive  *)
(* and leaves every other cell as it was; the result does not depend on    *)
(* the order of the pairs or on duplicates, and the same call again        *)
(* changes nothing.                                                        *)
(***************************************************************************)
InRangeList(u, coords) ==
    \A k \in 1..Len(coords) : ~OutOfRange(u, coords[k][1], coords[k][2])

PairsOf(coords) == {coords[k] : k \in 1..Len(coords)}

\* the lists that name the same cells, in any order and with duplicates
SamePairs(coords) ==
    {other \in UNION {[1..n -> PairsOf(coords)] : n \in 0..Len(coords)} :
        PairsOf(other) = PairsOf(coords)}

C8_SetCellsFrame ==
    (tracked /\ last.op = "set_cells" /\ IsProduct(pre)
       /\ InRangeList(pre, last.coords)) =>
        /\ fault = "none"
        /\ width = pre.width /\ height = pre.height
        /\ cells = [i \in 1..Len(pre.cells) |->
                      IF \E rc \in PairsOf(last.coords) : i = rc[1] * pre.width + rc[2] + 1
                      THEN Alive ELSE pre.cells[i]]
        /\ \A other \in SamePairs(last.coords) :
              set_cells(pre, other, overflow_checks).cells = cells
        /\ set_cells(Cur, last.coords, overflow_checks).cells = cells

\* a list that names one Dead cell twice, on a grid with a live cell it does
\* not name
C8_Witness ==
    /\ Returned("set_cells") /\ IsProduct(pre)
    /\ InRangeList(pre, last.coords)
    /\ Len(last.coords) = 2 /\ last.coords[1] = last.coords[2]
    /\ pre.cells[last.coords[1][1] * pre.width + last.coords[1][2] + 1] = Dead
    /\ SomeAlive(pre.cells)
    /\ cells # pre.cells

(***************************************************************************)
(* C9. toggle_cell(row, column) with an in-range pair flips the cell at    *)
(* index row * width + column and no other, and the same call again        *)
(* restores the grid.                                                      *)
(***************************************************************************)
C9_ToggleInvolution ==
    (tracked /\ last.op = "toggle_cell" /\ IsProduct(pre)
       /\ ~OutOfRange(pre, last.a, last.b)) =>
        /\ fault = "none"
        /\ width = pre.width /\ height = pre.height
        /\ cells = [i \in 1..Len(pre.cells) |->
                      IF i = last.a * pre.width + last.b + 1
                      THEN 1 - pre.cells[i] ELSE pre.cells[i]]
        /\ toggle_cell(Cur, last.a, last.b, overflow_checks)
              = Result(pre.width, pre.height, pre.cells, "none")

\* a cell away from row 0 and column 0 of a grid that is not square
C9_Witness ==
    /\ Returned("toggle_cell") /\ IsProduct(pre)
    /\ width = 3 /\ height = 2
    /\ last.a = 1 /\ last.b = 1
    /\ cells[5] # pre.cells[5]

(***************************************************************************)
(* C10. After reset() every cell is Dead and width and height are          *)
(* unchanged, and a second reset() leaves the grid, and its render, as     *)
(* they were after the first.                                              *)
(***************************************************************************)
C10_ResetIdempotent ==
    (tracked /\ last.op = "reset") =>
        /\ fault = "none"
        /\ width = pre.width /\ height = pre.height
        /\ Len(cells) = Len(pre.cells)
        /\ AllDead(cells)
        /\ reset(Cur) = Result(width, height, cells, "none")
        /\ fmt(reset(Cur)) = fmt(Cur)

\* reset of a grid that had a live cell
C10_Witness ==
    /\ Returned("reset")
    /\ SomeAlive(pre.cells)
    /\ Len(cells) > 1

(***************************************************************************)
(* C11. On an otherwise all-Dead grid with width >= 5 and height >= 5, a   *)
(* horizontal line of 3 Alive cells anywhere on the torus becomes after    *)
(* one tick the vertical line of 3 through the same centre cell, nothing   *)
(* else Alive, and the vertical line becomes the horizontal line again     *)
(* after the next tick; tick does not fail on these grids.                 *)
(***************************************************************************)
\* the grid is a line of 3 on an all-Dead grid with both sides at least 5
IsLine(u) ==
    /\ u.width >= 5 /\ u.height >= 5
    /\ \E i \in {k \in 1..Len(u.cells) : u.cells[k] = Alive} :
          u.cells \in {HLine(u.width, u.height, RowOf(i, u.width), ColumnOf(i, u.width)),
                       VLine(u.width, u.height, RowOf(i, u.width), ColumnOf(i, u.width))}

C11_Blinker ==
    /\ [](IsLine(Cur) => fault = "none")
    /\ [][ (pc = "tick" /\ pc' = "idle" /\ width >= 5 /\ height >= 5) =>
              \A r \in 0..(height - 1), c \in 0..(width - 1) :
                 /\ cells = HLine(width, height, r, c)
                       => cells' = VLine(width, height, r, c)
                 /\ cells = VLine(width, height, r, c)
                       => cells' = HLine(width, height, r, c) ]_vars

\* after a tick the line stands vertical through the corner cell (0, 0), its
\* ends joined through the wrapped edge
C11_Witness ==
    /\ pc = "idle" /\ fault = "none"
    /\ width = 5 /\ height = 5
    /\ cells = VLine(5, 5, 0, 0)

(***************************************************************************)
(* C12. On an otherwise all-Dead grid with width >= 4 and height >= 4, a   *)
(* 2 x 2 block of Alive cells anywhere on the torus, across the wrapped    *)
(* edges included, is unchanged by tick: each block cell has exactly 3     *)
(* live neighbours, no Dead cell has exactly 3, and tick does not fail.    *)
(***************************************************************************)
\* the grid is a block on an all-Dead grid with both sides at least 4
IsBlock(u) ==
    /\ u.width >= 4 /\ u.height >= 4
    /\ \E i \in {k \in 1..Len(u.cells) : u.cells[k] = Alive} :
          u.cells = Block(u.width, u.height, RowOf(i, u.width), ColumnOf(i, u.width))

\* the count the code gives the cell at position i of the buffer
CountAt(u, i, checks) ==
    live_neighbor_count(u, RowOf(i, u.width), ColumnOf(i, u.width), checks).count

C12_BlockStill ==
    /\ [](IsBlock(Cur) => fault = "none")
    /\ []((pc = "idle" /\ IsBlock(Cur)) =>
            \A i \in 1..Len(cells) :
               (cells[i] = Alive) <=> (CountAt(Cur, i, overflow_checks) = 3))
    /\ [][ (pc = "tick" /\ pc' = "idle" /\ IsBlock(Cur)) => cells' = cells ]_vars

\* tick's loop has passed every cell of a grid whose block lies across both
\* wrapped edges, one block cell in each corner
C12_Witness ==
    /\ pc = "tick" /\ fault = "none"
    /\ width = 4 /\ height = 4
    /\ cells = Block(4, 4, 3, 3)
    /\ row = height
    /\ next = cells

(***************************************************************************)
(* C13. A zero-area grid is legal: after set_width(0) or set_height(0),    *)
(* whatever the other dimension, the cell buffer is empty, and tick on a   *)
(* grid with width 0 or height 0 completes without a fault (no access out  *)
(* of bounds, no underflow of height - 1 or width - 1) and leaves width,   *)
(* height and cells unchanged.                                             *)
(***************************************************************************)
ZeroArea(u) == u.width = 0 \/ u.height = 0

C13_ZeroAreaTick ==
    /\ (tracked /\ last.op \in {"set_width", "set_height"} /\ last.a = 0) =>
          fault = "none" /\ ZeroArea(Cur) /\ cells = <<>>
    /\ (tracked /\ last.op = "tick" /\ ZeroArea(pre)) =>
          /\ fault = "none"
          /\ Cur = pre /\ cells = <<>>
          /\ pc = "tick" => next = <<>>
    /\ (pc = "idle" /\ fault = "none" /\ ZeroArea(Cur)) =>
          tick(Cur, overflow_checks) = Result(width, height, <<>>, "none")

\* tick has returned on a grid of width 0 with a height above 0
C13_Witness ==
    /\ Returned("tick")
    /\ pre.width = 0 /\ pre.height > 0
    /\ cells = <<>>

(***************************************************************************)
(* C14. Dimension overflow is rejected before allocating: set_width(w) or  *)
(* set_height(h) with a value for which width * height leaves the u32      *)
(* range leaves the grid as it was before the call, so that the stored     *)
(* width and height never have a true product that differs from the        *)
(* length of the buffer.                                                   *)
(***************************************************************************)
C14_OverflowRejected ==
    /\ (tracked /\ last.op = "set_width" /\ IsProduct(pre)
          /\ cell_count(last.a, pre.height).ovf)
       => (Cur = pre /\ IsProduct(Cur))
    /\ (tracked /\ last.op = "set_height" /\ IsProduct(pre)
          /\ cell_count(pre.width, last.a).ovf)
       => (Cur = pre /\ IsProduct(Cur))

\* the part of it that a panic would satisfy: an overflowing resize does not
\* return
OverflowFails ==
    (tracked /\ last.op \in {"set_width", "set_height"} /\ IsProduct(pre)
       /\ cell_count(width, height).ovf)
    => fault # "none"

\* what the build with overflow checks does: it panics, the dimension stored
OverflowPanicsWhenChecked ==
    (tracked /\ last.op \in {"set_width", "set_height"} /\ overflow_checks
       /\ cell_count(width, height).ovf)
    => (fault = "overflow" /\ cells = pre.cells /\ ~IsProduct(Cur))

(***************************************************************************)
(* C15. start() replaces the whole buffer without changing dimensions:     *)
(* width and height are unchanged, the new buffer has length               *)
(* width * height, and each cell's new state is given by its own random    *)
(* draw alone, whatever the previous content (the draws that gave the new  *)
(* buffer give it again on the flipped content, and any buffer can be      *)
(* drawn); tick, reset, toggle_cell and set_cells never change width or    *)
(* height; new() builds its buffer with start().                           *)
(***************************************************************************)
\* the buffer that the draws alone give
DrawnCells(draw) == [i \in 1..Len(draw) |-> IF draw[i] THEN Alive ELSE Dead]

\* the draws that give a buffer
DrawOf(cs) == [i \in 1..Len(cs) |-> cs[i] = Alive]

\* the previous content, every cell flipped
Flipped(u) == Universe(u.width, u.height, [i \in 1..Len(u.cells) |-> 1 - u.cells[i]])

C15_StartFrame ==
    /\ (tracked /\ last.op = "start" /\ IsProduct(pre)) =>
          /\ fault = "none"
          /\ width = pre.width /\ height = pre.height
          /\ IsProduct(Cur)
          /\ cells = DrawnCells(DrawOf(cells))
          /\ start(pre, DrawOf(cells), overflow_checks).cells = cells
          /\ start(Flipped(pre), DrawOf(cells), overflow_checks).cells = cells
          /\ start(Cur, DrawOf(pre.cells), overflow_checks).cells = pre.cells
    /\ (tracked /\ last.op \in {"tick", "reset", "toggle_cell", "set_cells", "start"}) =>
          width = pre.width /\ height = pre.height
    /\ last = NoCall =>
          \A draw \in [1..(NewDim * NewDim) -> BOOLEAN] :
             new(draw, overflow_checks) = Result(NewDim, NewDim, DrawnCells(draw), "none")

\* start has returned on a grid that was all Alive, with some cells drawn Dead
\* and some Alive
C15_Witness ==
    /\ Returned("start") /\ IsProduct(pre)
    /\ Len(pre.cells) > 2
    /\ ~SomeAlive(Flipped(pre).cells)
    /\ SomeAlive(cells) /\ ~AllDead(Flipped(Cur).cells)

(***************************************************************************)
(* C16. The degenerate wrap is not special-cased: for the cell that tick   *)
(* is at, a cell is counted once for each of the 8 offsets that lands on   *)
(* it, the cell itself included when width = 1 or height = 1.  On a 1 x 1  *)
(* grid an Alive cell has count 8 and is Dead after tick; on a grid of     *)
(* width 2 the east and the west neighbour are the same cell, counted      *)
(* twice.                                                                  *)
(***************************************************************************)
Offsets == ({-1, 0, 1} \X {-1, 0, 1}) \ {<<0, 0>>}

\* the position in the buffer of the cell at (r mod height, c mod width)
TorusIndex(u, r, c) ==
    ((r + u.height) % u.height) * u.width + ((c + u.width) % u.width) + 1

\* the number of offsets from (r, c) that land on the cell at position j
Landing(u, r, c, j) ==
    Cardinality({d \in Offsets : TorusIndex(u, r + d[1], c + d[2]) = j})

RECURSIVE WeightedCount(_, _, _, _)
\* the cells at positions 1..j, each counted once per offset landing on it
WeightedCount(u, r, c, j) ==
    IF j = 0 THEN 0
    ELSE u.cells[j] * Landing(u, r, c, j) + WeightedCount(u, r, c, j - 1)

C16_DegenerateWrap ==
    /\ (pc = "tick" /\ fault = "none" /\ IsGrid(Cur) /\ row < height) =>
          /\ live_neighbor_count(Cur, row, column, overflow_checks)
                = [fault |-> "none",
                   count |-> WeightedCount(Cur, row, column, Len(cells))]
          /\ (width = 1 /\ height = 1) => Landing(Cur, row, column, 1) = 8
          /\ (width = 1 /\ height >= 2) =>
                Landing(Cur, row, column, TorusIndex(Cur, row, column)) = 2
          /\ (height = 1 /\ width >= 2) =>
                Landing(Cur, row, column, TorusIndex(Cur, row, column)) = 2
          /\ (width = 2 /\ height >= 3) =>
                /\ wrap_inc(column, width).v = wrap_dec(column, width).v
                /\ Landing(Cur, row, column, TorusIndex(Cur, row, column + 1)) = 2
    /\ (tracked /\ last.op = "tick" /\ pre = Universe(1, 1, <<Alive>>)) =>
          /\ live_neighbor_count(pre, 0, 0, overflow_checks)
                = [fault |-> "none", count |-> 8]
          /\ fault = "none"
          /\ pc = "idle" => cells = <<Dead>>

\* tick has returned on the 1 x 1 grid whose cell was Alive
C16_Witness ==
    /\ Returned("tick")
    /\ pre = Universe(1, 1, <<Alive>>)
    /\ cells = <<Dead>>

(***************************************************************************)
(* C17. In every state with width >= 1 and height >= 1 reachable from      *)
(* Universe::new() by set_width, set_height, start, reset, tick,           *)
(* toggle_cell and set_cells, tick completes without fault: every index    *)
(* it computes is inside the buffer and no u32 subtraction underflows.     *)
(***************************************************************************)
C17_TickNoFault ==
    (pc = "tick" /\ width >= 1 /\ height >= 1) => fault = "none"

\* what the code keeps instead: tick does not fail on a grid whose buffer has
\* length width * height
TickNoFaultOnGrids ==
    (pc = "tick" /\ IsProduct(Cur)) => fault = "none"

(***************************************************************************)
(* C18. tick commutes with toroidal translation: on every grid with        *)
(* width >= 1 and height >= 1 (here: of up to ShiftCells cells), for every *)
(* shift (dr, dc), shifting every cell by (dr, dc) modulo (height, width)  *)
(* and then calling tick gives the grid that tick followed by the shift    *)
(* gives.                                                                  *)
(***************************************************************************)
\* the grid with the cell of (r, c) moved to ((r + dr) mod height,
\* (c + dc) mod width), for 0 <= dr < height and 0 <= dc < width
Shift(u, dr, dc) ==
    Universe(u.width, u.height,
             [i \in 1..Len(u.cells) |->
                 u.cells[TorusIndex(u, RowOf(i, u.width) - dr + u.height,
                                    ColumnOf(i, u.width) - dc + u.width)]])

C18_TickCommutesWithShift ==
    [][ (pc = "tick" /\ pc' = "idle" /\ IsGrid(Cur) /\ Len(cells) <= ShiftCells) =>
          /\ fault' = "none"
          /\ \A dr \in 0..(height - 1), dc \in 0..(width - 1) :
                tick(Shift(Cur, dr, dc), overflow_checks)
                   = Result(width, height,
                            Shift(Universe(width, height, cells'), dr, dc).cells,
                            "none") ]_vars

\* tick's loop has passed every cell of a 3 x 3 grid that tick changes and
\* that no shift but (0, 0) leaves as it is
C18_Witness ==
    /\ pc = "tick" /\ fault = "none"
    /\ width = 3 /\ height = 3
    /\ row = height
    /\ next # cells
    /\ \A dr \in 0..(height - 1), dc \in 0..(width - 1) :
          (dr # 0 \/ dc # 0) => Shift(Cur, dr, dc) # Cur

(***************************************************************************)
(* C19. The all-Dead grid is a fixed point of tick: after reset(),         *)
(* set_width or set_height every cell is Dead, and tick on an all-Dead     *)
(* grid of any size leaves every cell Dead, so any number of ticks does;   *)
(* a cell becomes Alive only through tick, when it has exactly 3 live      *)
(* neighbours, or through start, toggle_cell or set_cells.                 *)
(***************************************************************************)
\* position i holds an Alive cell that was not Alive there before the call
BecameAlive(i) == cells[i] = Alive /\ (i > Len(pre.cells) \/ pre.cells[i] = Dead)

C19_AllDeadFixedPoint ==
    /\ (tracked /\ last.op \in {"reset", "set_width", "set_height"} /\ fault = "none") =>
          AllDead(cells)
    /\ (tracked /\ last.op = "tick" /\ AllDead(pre.cells)) =>
          /\ AllDead(cells) /\ AllDead(next)
          /\ Len(cells) = Len(pre.cells)
          /\ (pc = "idle" /\ fault = "none") => Cur = pre
          /\ IsProduct(pre) =>
                tick(tick(pre, overflow_checks), overflow_checks)
                   = Result(pre.width, pre.height, pre.cells, "none")
    /\ (tracked /\ last # NoCall) =>
          \A i \in 1..Len(cells) :
             BecameAlive(i) =>
                \/ last.op \in {"start", "toggle_cell", "set_cells"}
                \/ /\ last.op = "tick"
                   /\ CountAt(pre, i, overflow_checks) = 3

\* tick has returned on an all-Dead grid of 3 x 2 cells
C19_Witness ==
    /\ Returned("tick")
    /\ pre.width = 3 /\ pre.height = 2
    /\ AllDead(pre.cells)
    /\ Len(cells) = 6 /\ AllDead(cells)

====
